---- MODULE Spec2Model ----
(***************************************************************************)
(* Model of comfy_catapult.catapult.ComfyCatapult: the job table, the      *)
(* submit / cancel / status operations, the poll loop and the websocket    *)
(* consumer.  asyncio tasks are cooperative: a task runs until it awaits   *)
(* something that really suspends (an engine call, mkdir, sleep, recv).    *)
(* The orchestrator lock is never held across such an await, so acquiring  *)
(* it never suspends; one action below is one run-to-suspension segment.   *)
(***************************************************************************)
EXTENDS Naturals, Sequences, FiniteSets, TLC

\* Number of Catapult calls made over the life of the instance.
MaxCalls == 2

\* Number of failed health checks of the poll loop that are told apart.
MaxCheckErrors == 2

Calls == 1..MaxCalls

\* Caller-chosen job ids; "A b" is not in slugified form.
JobIDs == {"a", "b", "A b"}

slugify(job_id) == IF job_id = "A b" THEN "a-b" ELSE job_id

\* Engine prompt ids: the engine hands prompt id c to the PostPrompt of call c;
\* 0 stands for None and MaxCalls + 1 is a prompt of some other client.
NoPrompt == 0
ForeignPrompt == MaxCalls + 1
PromptIDs == 1..ForeignPrompt

Nodes == {"A", "B"}
Importants == {<<"A">>, <<"B">>, <<"B", "A">>}

\* _GetTitles, lines 431-438: the title of each node in the prepared
\* workflow; node "B" has no _meta title.
GetTitles(node_ids) ==
  [i \in DOMAIN node_ids |-> IF node_ids[i] = "A" THEN "title A" ELSE "None"]

--------------------------------------------------------------------------
\* Values

NoTicket == [present |-> FALSE, prompt_id |-> NoPrompt, error |-> FALSE,
             node_errors |-> FALSE]

\* APIHistoryEntry: outputs (nodes with data), prompt.outputs_to_execute,
\* status.completed ("none" when there is no status block).
NoHistory == [present |-> FALSE, outputs |-> {}, has_prompt |-> FALSE,
              to_execute |-> <<>>, completed |-> "none"]

HistoryEntries ==
  { [present |-> TRUE, outputs |-> {"A", "B"}, has_prompt |-> TRUE,
     to_execute |-> <<"A", "B">>, completed |-> "true"],
    [present |-> TRUE, outputs |-> {"A"}, has_prompt |-> TRUE,
     to_execute |-> <<"A", "B">>, completed |-> "none"],
    [present |-> TRUE, outputs |-> {"A", "B"}, has_prompt |-> TRUE,
     to_execute |-> <<"A", "B">>, completed |-> "false"],
    [present |-> TRUE, outputs |-> {"A"}, has_prompt |-> TRUE,
     to_execute |-> <<"A", "B">>, completed |-> "false"],
    [present |-> TRUE, outputs |-> {}, has_prompt |-> FALSE,
     to_execute |-> <<>>, completed |-> "none"] }

\* Exceptions: type, the call whose workflow it carries (0: none), the ticket
\* it carries, the nodes it names and their titles.
Exc(type) == [type |-> type, call |-> 0, ticket |-> NoTicket, nodes |-> <<>>,
              titles |-> <<>>]
NoExc == Exc("none")

WorkflowSubmissionError(c, ticket) ==
  [type |-> "WorkflowSubmissionError", call |-> c, ticket |-> ticket,
   nodes |-> <<>>, titles |-> <<>>]

NodesNotExecuted(nodes, titles) ==
  [type |-> "NodesNotExecuted", call |-> 0, ticket |-> NoTicket,
   nodes |-> nodes, titles |-> titles]

\* asyncio.Future
PendingFuture == [state |-> "pending", result |-> NoHistory, exc |-> NoExc]

FutureDone(f) == f.state # "pending"

\* _Job together with its JobStatus
\* A timestamp of JobStatus is TRUE when it is not None.  rewritten is the set
\* of timestamps that were assigned while they already had a value: the
\* value is the clock's, so such an assignment changes it.
NoJob ==
  [live |-> FALSE, job_id |-> "", important |-> <<>>, ticket |-> NoTicket,
   scheduled |-> FALSE, rewritten |-> {},
   comfy_scheduled |-> FALSE, pending |-> FALSE, running |-> FALSE,
   success |-> FALSE, errored |-> FALSE, cancelled |-> FALSE,
   system_stats_check |-> FALSE, queue_check |-> FALSE,
   job_history |-> NoHistory, status_errors |-> <<>>, errors |-> <<>>,
   future |-> PendingFuture, remote_job_status |-> "PENDING_OR_RUNNING"]

IsDone(job) == job.success \/ job.errored \/ job.cancelled

\* job.status = job.status._replace(<field>=self._Now())
Replace(job, field) ==
  [job EXCEPT ![field] = TRUE,
              !.rewritten = IF job[field] THEN @ \cup {field} ELSE @]

\* The tasks whose lock and await operations are followed: one caller of
\* the facade, the _PollLoop task and the _MonitoringThread task.
LockTasks == {"caller", "poll", "ws"}

--------------------------------------------------------------------------
VARIABLES
  records,          \* call -> the _Job object that call constructed
  jobs,             \* self._jobs: job id -> call whose _Job is in the table
                    \* (0: the id is not a key)
  job_order,        \* insertion order of the keys of self._jobs
  prompt_id_index,  \* self._prompt_id_index: prompt id -> job id ("": no key)
  cat,              \* call -> position of that Catapult call
  cancel,           \* position of the CancelJob call
  poll,             \* position of the _PollLoop task
  ws,               \* position of the _MonitoringThread / _LoopWS task
  stop_event,       \* self._stop_event
  close,            \* position of the Close call
  resume,           \* position of the caller's Resume call
  lk                \* self._lock and the position of each task in the
                    \* lock and await operations of what it runs

vars == <<records, jobs, job_order, prompt_id_index, cat, cancel, poll, ws,
          stop_event, close, resume, lk>>

IdleCat == [pc |-> "idle", job_id |-> "", important |-> <<>>,
            raised |-> NoExc]

\* job is the _Job object the call holds; was_done remembers whether that job
\* was terminal when CancelJob was called.
IdleCancel == [pc |-> "idle", job_id |-> "", job |-> 0,
               prompt_id |-> NoPrompt, was_done |-> FALSE]

\* check_errors counts the iterations whose _CheckError raised (and was
\* logged by _PollLoop).  looked_up is the set of jobs whose prompt id was in
\* _prompt_id_index when _PollQueue computed job_id_2_status: only these
\* could be found in the engine's queue answer (lines 556-562), every other
\* job gets 'not_in_queue' from lines 563-565 without a look-up.
SleepingPoll == [pc |-> "sleep", job_ids |-> <<>>,
                 status |-> [j \in JobIDs |-> ""], at |-> 0,
                 check_errors |-> 0, looked_up |-> {}]

Init ==
  /\ records = [c \in Calls |-> NoJob]
  /\ jobs = [j \in JobIDs |-> 0]
  /\ job_order = <<>>
  /\ prompt_id_index = [p \in PromptIDs |-> ""]
  /\ cat = [c \in Calls |-> IdleCat]
  /\ cancel = IdleCancel
  /\ poll = SleepingPoll
  /\ ws = "start"
  /\ stop_event = FALSE
  /\ close = "idle"
  /\ resume = [pc |-> "idle", job_id |-> "", raised |-> NoExc]
  /\ lk = [lock |-> "", pc |-> [t \in LockTasks |-> 0],
           prog |-> [t \in LockTasks |-> <<>>], unguarded |-> FALSE]

\* Close has called cancel() on both background tasks (lines 175-176) and is
\* awaiting them: the next step of either task is its CancelledError.
TasksCancelled == close = "waiting"

--------------------------------------------------------------------------
\* __aexit__ without the `not job.future.done()` test of line 922.
JobContextExitAlwaysRejects(rs, tbl, job_id, exc) ==
  IF tbl[job_id] = 0 THEN rs
  ELSE LET r == tbl[job_id]
           job == rs[r]
           future == [state |-> "exception", result |-> NoHistory,
                      exc |-> exc]
       IN  [rs EXCEPT ![r] =
             IF ~IsDone(job)
             THEN [Replace(job, "errored") EXCEPT
                     !.future = future,
                     !.errors = Append(@, exc),
                     !.status_errors = Append(@, exc.type)]
             ELSE [job EXCEPT !.future = future]]

\* _JobContext.__aexit__ with an exception: the table is looked up by job id.
JobContextExit(rs, tbl, job_id, exc) ==
  IF tbl[job_id] = 0 THEN rs
  ELSE LET r == tbl[job_id]
           job == rs[r]
           future == IF ~FutureDone(job.future)
                     THEN [state |-> "exception", result |-> NoHistory,
                           exc |-> exc]
                     ELSE job.future
       IN  [rs EXCEPT ![r] =
             IF ~IsDone(job)
             THEN [Replace(job, "errored") EXCEPT
                     !.future = future,
                     !.errors = Append(@, exc),
                     !.status_errors = Append(@, exc.type)]
             ELSE [job EXCEPT !.future = future]]

--------------------------------------------------------------------------
\* Catapult / _CatapultInternal

NewJob(job_id, important) ==
  [NoJob EXCEPT !.live = TRUE, !.job_id = job_id, !.important = important,
                !.scheduled = TRUE]

\* lines 249-271: construct the _Job and put it in the table, then await
\* PostPrompt inside the _JobContext.
CatapultInsert(c, job_id, important) ==
  /\ records' = [records EXCEPT ![c] = NewJob(job_id, important)]
  /\ jobs' = [jobs EXCEPT ![job_id] = c]
  /\ job_order' = IF jobs[job_id] = 0 THEN Append(job_order, job_id)
                  ELSE job_order
  /\ cat' = [cat EXCEPT ![c] = [pc |-> "post", job_id |-> job_id,
                                important |-> important, raised |-> NoExc]]

\* _CatapultInternal with the slug check of lines 238-241 made after the job
\* is put in the table.
CatapultValidateLate(c, job_id, important, debug) ==
  /\ cat[c].pc = "idle"
  /\ \A d \in Calls : d < c => cat[d].pc # "idle"
  /\ IF jobs[job_id] # 0
     THEN /\ cat' = [cat EXCEPT ![c] = [pc |-> "raised", job_id |-> job_id,
                       important |-> important, raised |-> Exc("KeyError")]]
          /\ UNCHANGED <<lk, records, jobs, job_order>>
     ELSE IF slugify(job_id) # job_id
     THEN /\ records' = [records EXCEPT ![c] = NewJob(job_id, important)]
          /\ jobs' = [jobs EXCEPT ![job_id] = c]
          /\ job_order' = Append(job_order, job_id)
          /\ cat' = [cat EXCEPT ![c] = [pc |-> "raised", job_id |-> job_id,
                       important |-> important, raised |-> Exc("ValueError")]]
     ELSE IF debug
     THEN /\ cat' = [cat EXCEPT ![c] = [pc |-> "mkdir", job_id |-> job_id,
                       important |-> important, raised |-> NoExc]]
          /\ UNCHANGED <<lk, records, jobs, job_order>>
     ELSE CatapultInsert(c, job_id, important)
  /\ UNCHANGED <<lk, prompt_id_index, cancel, poll, ws, stop_event, close, resume>>

\* lines 235-247: the duplicate and slug checks; with a debug path the call
\* suspends in mkdir before the job is constructed.
CatapultValidate(c, job_id, important, debug) ==
  /\ cat[c].pc = "idle"
  /\ \A d \in Calls : d < c => cat[d].pc # "idle"
  /\ IF jobs[job_id] # 0
     THEN /\ cat' = [cat EXCEPT ![c] = [pc |-> "raised", job_id |-> job_id,
                       important |-> important, raised |-> Exc("KeyError")]]
          /\ UNCHANGED <<lk, records, jobs, job_order>>
     ELSE IF slugify(job_id) # job_id
     THEN /\ cat' = [cat EXCEPT ![c] = [pc |-> "raised", job_id |-> job_id,
                       important |-> important, raised |-> Exc("ValueError")]]
          /\ UNCHANGED <<lk, records, jobs, job_order>>
     ELSE IF debug
     THEN /\ cat' = [cat EXCEPT ![c] = [pc |-> "mkdir", job_id |-> job_id,
                       important |-> important, raised |-> NoExc]]
          /\ UNCHANGED <<lk, records, jobs, job_order>>
     ELSE CatapultInsert(c, job_id, important)
  /\ UNCHANGED <<lk, prompt_id_index, cancel, poll, ws, stop_event, close, resume>>

\* The first call names "a" (or the unslugified id); later calls name any id.
CallJobIDs(c) == IF c = 1 THEN {"a", "A b"} ELSE JobIDs

CatapultStart(c) ==
  \E job_id \in CallJobIDs(c), important \in Importants, debug \in BOOLEAN :
    CatapultValidate(c, job_id, important, debug)

\* line 247 returns: mkdir is done.
CatapultMkdirDone(c) ==
  /\ cat[c].pc = "mkdir"
  /\ CatapultInsert(c, cat[c].job_id, cat[c].important)
  /\ UNCHANGED <<lk, prompt_id_index, cancel, poll, ws, stop_event, close, resume>>

\* The acknowledgements of PostPrompt for call c: accepted, rejected with an
\* error next to a prompt id, rejected with node errors, and one with nothing.
Tickets(c) ==
  { [present |-> TRUE, prompt_id |-> c, error |-> FALSE,
     node_errors |-> FALSE],
    [present |-> TRUE, prompt_id |-> c, error |-> TRUE,
     node_errors |-> FALSE],
    [present |-> TRUE, prompt_id |-> NoPrompt, error |-> FALSE,
     node_errors |-> TRUE],
    [present |-> TRUE, prompt_id |-> NoPrompt, error |-> FALSE,
     node_errors |-> FALSE] }

\* has_errors without the missing-prompt-id test of lines 287-288.
HasErrorsIgnoresMissingPrompt(ticket) == ticket.node_errors \/ ticket.error

\* lines 282-288
HasErrors(ticket) ==
  ticket.node_errors \/ ticket.error \/ ticket.prompt_id = NoPrompt

\* lines 277-280: record the ticket on this call's _Job and index the prompt.
IndexTicket(index, ticket, job_id) ==
  IF ticket.prompt_id # NoPrompt
  THEN [index EXCEPT ![ticket.prompt_id] = job_id]
  ELSE index

\* lines 274-305: PostPrompt returned a ticket.
CatapultTicket(c, ticket) ==
  /\ cat[c].pc = "post"
  /\ LET job_id == cat[c].job_id
         rs1 == [records EXCEPT ![c].ticket = ticket]
         exc == WorkflowSubmissionError(c, ticket)
     IN  /\ prompt_id_index' = IndexTicket(prompt_id_index, ticket, job_id)
         /\ IF HasErrors(ticket)
            THEN /\ records' = JobContextExit(rs1, jobs, job_id, exc)
                 /\ cat' = [cat EXCEPT ![c].pc = "raised", ![c].raised = exc]
            ELSE /\ records' = [rs1 EXCEPT
                                  ![c] = Replace(@, "comfy_scheduled")]
                 /\ cat' = [cat EXCEPT ![c].pc = "returned"]
  /\ UNCHANGED <<lk, jobs, job_order, cancel, poll, ws, stop_event, close, resume>>

CatapultPostPrompt(c) == \E ticket \in Tickets(c) : CatapultTicket(c, ticket)

\* line 274 raises (the engine call failed).
CatapultPostPromptRaises(c) ==
  /\ cat[c].pc = "post"
  /\ records' = JobContextExit(records, jobs, cat[c].job_id,
                               Exc("EngineError"))
  /\ cat' = [cat EXCEPT ![c].pc = "raised", ![c].raised = Exc("EngineError")]
  /\ UNCHANGED <<lk, jobs, job_order, prompt_id_index, cancel, poll, ws, stop_event, close, resume>>

--------------------------------------------------------------------------
\* CancelJob

\* asyncio.Future.cancel(): no effect on a future that is done.
FutureCancel(f) ==
  IF FutureDone(f) THEN f
  ELSE [state |-> "cancelled", result |-> NoHistory, exc |-> NoExc]

\* lines 348-352, on the _Job object the call holds.
CancelMark(rs, r) ==
  IF ~IsDone(rs[r])
  THEN [rs EXCEPT ![r] = Replace(@, "cancelled"),
                  ![r].future = FutureCancel(rs[r].future)]
  ELSE rs

\* lines 337-338: whether the remote interrupt / dequeue is attempted.
CancelsRemotely(job) ==
  /\ job.remote_job_status = "PENDING_OR_RUNNING"
  /\ job.ticket.prompt_id # NoPrompt

\* lines 328-338 (and 348-352 when nothing is awaited).  An unknown job id
\* raises JobNotFound, which __aexit__ lets through without touching a job.
CancelJobStart(job_id) ==
  /\ cancel.pc = "idle"
  /\ IF jobs[job_id] = 0
     THEN UNCHANGED <<lk, records, cancel>>
     ELSE LET r == jobs[job_id] IN
          IF CancelsRemotely(records[r])
          THEN /\ cancel' = [pc |-> "interrupt", job_id |-> job_id, job |-> r,
                             prompt_id |-> records[r].ticket.prompt_id,
                             was_done |-> IsDone(records[r])]
               /\ UNCHANGED records
          ELSE /\ records' = CancelMark(records, r)
               /\ UNCHANGED cancel
  /\ UNCHANGED <<lk, jobs, job_order, prompt_id_index, cat, poll, ws, stop_event, close, resume>>

CancelJob == \E job_id \in JobIDs : CancelJobStart(job_id)

\* line 342 returns; line 343 is awaited next.
CancelInterruptReturns ==
  /\ cancel.pc = "interrupt"
  /\ cancel' = [cancel EXCEPT !.pc = "dequeue"]
  /\ UNCHANGED <<lk, records, jobs, job_order, prompt_id_index, cat, poll, ws,
                 stop_event, close, resume>>

\* line 342 or 343 raises: the exception leaves through the _JobContext.
CancelRemoteRaises ==
  /\ cancel.pc \in {"interrupt", "dequeue"}
  /\ records' = JobContextExit(records, jobs, cancel.job_id,
                               Exc("EngineError"))
  /\ cancel' = IdleCancel
  /\ UNCHANGED <<lk, jobs, job_order, prompt_id_index, cat, poll, ws, stop_event, close, resume>>

\* line 343 returns; lines 345-352.
CancelDequeueReturns ==
  /\ cancel.pc = "dequeue"
  /\ records' = CancelMark(
        [records EXCEPT ![cancel.job].remote_job_status = "NONE"], cancel.job)
  /\ cancel' = IdleCancel
  /\ UNCHANGED <<lk, jobs, job_order, prompt_id_index, cat, poll, ws, stop_event, close, resume>>

--------------------------------------------------------------------------
\* The poll loop: _PollLoop / _Poll

\* lines 426-448
bad_dataless_outputs(entry) ==
  SelectSeq(entry.to_execute, LAMBDA node_id : node_id \notin entry.outputs)

\* dataless_important_outputs without the important_nodes filter of line 447.
dataless_outputs_unfiltered(entry, important_nodes) ==
  bad_dataless_outputs(entry)

dataless_important_outputs(entry, important_nodes) ==
  LET important == {important_nodes[i] : i \in DOMAIN important_nodes}
  IN  SelectSeq(bad_dataless_outputs(entry),
                LAMBDA node_id : node_id \in important)

\* lines 459-462: set_result raises InvalidStateError on a future that is
\* done, before the status is touched.
MarkSuccess(rs, r, entry) ==
  IF FutureDone(rs[r].future)
  THEN [records |-> rs, raised |-> Exc("InvalidStateError")]
  ELSE [records |-> [rs EXCEPT ![r].future = [state |-> "result",
                                               result |-> entry,
                                               exc |-> NoExc],
                               ![r] = Replace(@, "success")],
        raised |-> NoExc]

\* The answers of GetHistoryRaw after parsing: an empty map, a map without
\* the job's prompt id, or a map holding an entry for it.
HistoryAnswers ==
  {[kind |-> "empty", entry |-> NoHistory],
   [kind |-> "other", entry |-> NoHistory]}
  \cup {[kind |-> "entry", entry |-> e] : e \in HistoryEntries}

\* The status test of lines 403-404 left out.
status_never_incomplete(entry) == FALSE

\* lines 403-404: the entry has a status block whose completed is False.
status_incomplete(entry) == entry.completed = "false"

\* _ReceivedJobHistory, lines 354-462: the records afterwards and the
\* exception it raised (NoExc when it returned).
ReceivedJobHistory(rs, tbl, job_id, history, queue_status) ==
  LET r == tbl[job_id]
      job == rs[r]
      entry == history.entry
      rs1 == [rs EXCEPT ![r].job_history = entry]
      missing == dataless_important_outputs(entry, job.important)
  IN  IF history.kind = "empty"
      THEN [records |-> rs,
            raised |-> IF queue_status = "not_in_queue"
                       THEN Exc("JobDisappeared") ELSE NoExc]
      ELSE IF history.kind = "other" \/ job.ticket.prompt_id = NoPrompt
      THEN [records |-> rs, raised |-> Exc("AssertionError")]
      ELSE IF status_incomplete(entry)
      THEN [records |-> rs1, raised |-> Exc("JobFailed")]
      ELSE IF Len(missing) > 0
      THEN [records |-> rs1, raised |-> NodesNotExecuted(missing, GetTitles(missing))]
      ELSE MarkSuccess(rs1, r, entry)

\* _PollFutures, lines 492-513, over the jobs from position i of the table.
\* Reading a cancelled future raises CancelledError, which `except Exception`
\* does not catch: it ends the poll task.
RECURSIVE PollFuturesFrom(_, _, _, _)
PollFuturesFrom(rs, tbl, ids, i) ==
  IF i > Len(ids) THEN [records |-> rs, dead |-> FALSE]
  ELSE LET job_id == ids[i]
           r == tbl[job_id]
           job == rs[r]
       IN  IF ~(FutureDone(job.future) /\ ~IsDone(job))
           THEN PollFuturesFrom(rs, tbl, ids, i + 1)
           ELSE IF job.future.state = "result"
           THEN PollFuturesFrom([rs EXCEPT ![r] = Replace(@, "success")],
                                tbl, ids, i + 1)
           ELSE IF job.future.state = "exception"
           THEN PollFuturesFrom(JobContextExit(rs, tbl, job_id,
                                               job.future.exc),
                                tbl, ids, i + 1)
           ELSE [records |-> JobContextExit(rs, tbl, job_id,
                                            Exc("CancelledError")),
                 dead |-> TRUE]

\* _Poll up to the await of GetSystemStats: lines 470-473 and 516.
\* The tasks take their first step in the order __init__ created them
\* (lines 138-141), the monitoring task first.  _CheckError (line 472)
\* re-raises the exception of a monitoring task that is done; _PollLoop logs
\* it and sleeps, lines 819-822.
PollStart ==
  /\ poll.pc = "sleep"
  /\ ~stop_event
  /\ ws # "start"
  /\ IF ws = "failed"
     THEN /\ poll' = [poll EXCEPT !.check_errors =
                        IF @ < MaxCheckErrors THEN @ + 1 ELSE @]
          /\ UNCHANGED records
     ELSE LET res == PollFuturesFrom(records, jobs, job_order, 1)
          IN  /\ records' = res.records
              /\ poll' = IF res.dead THEN [SleepingPoll EXCEPT !.pc = "dead"]
                         ELSE [SleepingPoll EXCEPT !.pc = "stats",
                                                   !.job_ids = job_order]
  /\ UNCHANGED <<lk, jobs, job_order, prompt_id_index, cat, cancel, ws, stop_event, close, resume>>

\* _PollSystemStats, lines 518-530
RECURSIVE SystemStatsFrom(_, _, _, _)
SystemStatsFrom(rs, tbl, ids, i) ==
  IF i > Len(ids) THEN rs
  ELSE LET r == tbl[ids[i]]
       IN  SystemStatsFrom(
             IF ~IsDone(rs[r]) /\ ~rs[r].system_stats_check
             THEN [rs EXCEPT ![r].system_stats_check = TRUE] ELSE rs,
             tbl, ids, i + 1)

\* GetSystemStats returned; GetQueue is awaited next.
PollSystemStats ==
  /\ poll.pc = "stats"
  /\ ~TasksCancelled
  /\ records' = SystemStatsFrom(records, jobs, poll.job_ids, 1)
  /\ poll' = [poll EXCEPT !.pc = "queue"]
  /\ UNCHANGED <<lk, jobs, job_order, prompt_id_index, cat, cancel, ws, stop_event, close, resume>>

\* GetSystemStats, GetQueue or GetPromptRaw raised (or the queue_remaining
\* check did): _PollLoop logs it and sleeps, lines 817-822.
PollProbeRaises ==
  /\ poll.pc \in {"stats", "queue", "promptraw"}
  /\ ~TasksCancelled
  /\ poll' = SleepingPoll
  /\ UNCHANGED <<lk, records, jobs, job_order, prompt_id_index, cat, cancel, ws,
                 stop_event, close, resume>>

\* The answers of GetQueue: where each prompt id is listed.
QueueAnswers == [PromptIDs -> {"absent", "pending", "running"}]

\* _PollQueue without the look-up of lines 556-562: a job is given the
\* status of any prompt of the queue answer.
JobQueueStatusAnyPrompt(index, ids, queue_info) ==
  [job_id \in JobIDs |->
    IF \A i \in DOMAIN ids : ids[i] # job_id THEN ""
    ELSE IF \E p \in PromptIDs : queue_info[p] = "pending" THEN "pending"
    ELSE IF \E p \in PromptIDs : queue_info[p] = "running" THEN "running"
    ELSE "not_in_queue"]

\* lines 538-564: job id -> queue status.  queue_running is read before
\* queue_pending, so a pending entry is the later one in both dicts.
JobQueueStatus(index, ids, queue_info) ==
  [job_id \in JobIDs |->
    IF \A i \in DOMAIN ids : ids[i] # job_id THEN ""
    ELSE IF \E p \in PromptIDs :
              index[p] = job_id /\ queue_info[p] = "pending" THEN "pending"
    ELSE IF \E p \in PromptIDs :
              index[p] = job_id /\ queue_info[p] = "running" THEN "running"
    ELSE "not_in_queue"]

\* _PollQueue without the `is None` tests of lines 572 and 575.
QueueMarkOverwrites(job, status) ==
  [(IF status \in {"pending", "running"} THEN Replace(job, status)
    ELSE job) EXCEPT !.queue_check = TRUE]

\* lines 566-586, one job
QueueMark(job, status) ==
  [(IF status \in {"pending", "running"} /\ ~job[status]
    THEN Replace(job, status) ELSE job) EXCEPT !.queue_check = TRUE]

RECURSIVE QueueMarkFrom(_, _, _, _, _)
QueueMarkFrom(rs, tbl, ids, status, i) ==
  IF i > Len(ids) THEN rs
  ELSE LET r == tbl[ids[i]]
       IN  QueueMarkFrom([rs EXCEPT ![r] = QueueMark(@, status[ids[i]])],
                         tbl, ids, status, i + 1)

\* GetQueue returned queue_info; GetPromptRaw is awaited next.
PollQueueAnswer(queue_info) ==
  /\ poll.pc = "queue"
  /\ ~TasksCancelled
  /\ LET status == JobQueueStatus(prompt_id_index, poll.job_ids, queue_info)
     IN  /\ records' = QueueMarkFrom(records, jobs, poll.job_ids, status, 1)
         /\ poll' = [poll EXCEPT !.pc = "promptraw", !.status = status,
                                 !.looked_up =
                                   {job_id \in JobIDs :
                                      /\ status[job_id] # ""
                                      /\ \E p \in PromptIDs :
                                           prompt_id_index[p] = job_id}]
  /\ UNCHANGED <<lk, jobs, job_order, prompt_id_index, cat, cancel, ws,
                 stop_event, close, resume>>

PollQueue == \E queue_info \in QueueAnswers : PollQueueAnswer(queue_info)

\* _PollHistoryUpdateRemoteJobStatus, lines 593-601, for every key of
\* job_id_2_status
RECURSIVE UpdateRemoteJobStatusFrom(_, _, _, _, _)
UpdateRemoteJobStatusFrom(rs, tbl, ids, status, i) ==
  IF i > Len(ids) THEN rs
  ELSE LET r == tbl[ids[i]]
           new_remote_job_status ==
             IF status[ids[i]] = "" THEN "NONE" ELSE "PENDING_OR_RUNNING"
       IN  UpdateRemoteJobStatusFrom(
             [rs EXCEPT ![r].remote_job_status = new_remote_job_status],
             tbl, ids, status, i + 1)

\* lines 655-666 with 605-630: walk job_id_2_status from position i up to the
\* next job for which GetHistoryRaw is awaited; `at` is that position, or
\* Len(ids) + 1 when the walk is over.
RECURSIVE HistoryWalk(_, _, _, _, _)
HistoryWalk(rs, tbl, ids, status, i) ==
  IF i > Len(ids) THEN [records |-> rs, at |-> i]
  ELSE LET job_id == ids[i]
           job == rs[tbl[job_id]]
       IN  IF status[job_id] \in {"pending", "running"}
           THEN HistoryWalk(rs, tbl, ids, status, i + 1)
           ELSE IF job.job_history.present
           THEN HistoryWalk(rs, tbl, ids, status, i + 1)
           ELSE IF job.ticket.prompt_id = NoPrompt
           THEN HistoryWalk(JobContextExit(rs, tbl, job_id,
                                           Exc("PromptIdNone")),
                            tbl, ids, status, i + 1)
           ELSE [records |-> rs, at |-> i]

PollAfterWalk(walk) ==
  /\ records' = walk.records
  /\ poll' = IF walk.at > Len(poll.job_ids) THEN SleepingPoll
             ELSE [poll EXCEPT !.pc = "history", !.at = walk.at]

\* GetPromptRaw returned; _PollHistory starts, lines 643-666.
PollPromptRaw ==
  /\ poll.pc = "promptraw"
  /\ ~TasksCancelled
  /\ PollAfterWalk(HistoryWalk(
        UpdateRemoteJobStatusFrom(records, jobs, poll.job_ids, poll.status,
                                  1),
        jobs, poll.job_ids, poll.status, 1))
  /\ UNCHANGED <<lk, jobs, job_order, prompt_id_index, cat, cancel, ws, stop_event, close, resume>>

\* lines 637-640 inside the _JobContext of line 605: what
\* _ReceivedJobHistory raises leaves through __aexit__.
PollHistoryUpdateJobHistory(rs, tbl, job_id, history, queue_status) ==
  LET res == ReceivedJobHistory(rs, tbl, job_id, history, queue_status)
  IN  IF res.raised = NoExc THEN res.records
      ELSE JobContextExit(res.records, tbl, job_id, res.raised)

\* GetHistoryRaw returned for the job at poll.at, lines 629-640.
PollHistoryAnswer(history) ==
  /\ poll.pc = "history"
  /\ ~TasksCancelled
  /\ LET job_id == poll.job_ids[poll.at]
         rs == PollHistoryUpdateJobHistory(records, jobs, job_id, history,
                                          poll.status[job_id])
     IN  PollAfterWalk(HistoryWalk(rs, jobs, poll.job_ids, poll.status,
                                   poll.at + 1))
  /\ UNCHANGED <<lk, jobs, job_order, prompt_id_index, cat, cancel, ws, stop_event, close, resume>>

PollHistory == \E history \in HistoryAnswers : PollHistoryAnswer(history)

\* GetHistoryRaw (or the parse of its answer) raised.
PollHistoryRaises ==
  /\ poll.pc = "history"
  /\ ~TasksCancelled
  /\ PollAfterWalk(HistoryWalk(
        JobContextExit(records, jobs, poll.job_ids[poll.at],
                       Exc("EngineError")),
        jobs, poll.job_ids, poll.status, poll.at + 1))
  /\ UNCHANGED <<lk, jobs, job_order, prompt_id_index, cat, cancel, ws, stop_event, close, resume>>

--------------------------------------------------------------------------
\* The websocket consumer: _MonitoringThread and _LoopWS, one received
\* message per step

\* lines 826-846: the task's first step builds the websocket URL and headers
\* and connects; _LoopWS then awaits ws.recv().
MonitoringThreadStart ==
  /\ ws = "start"
  /\ ~TasksCancelled
  /\ ws' = "recv"
  /\ UNCHANGED <<lk, records, jobs, job_order, prompt_id_index, cat, cancel,
                 poll, stop_event, close, resume>>

\* lines 826-835 raise (GetURL, or the URL does not parse: urlparse's port
\* raises ValueError): nothing catches it and the task is over.
MonitoringThreadRaises ==
  /\ ws = "start"
  /\ ~TasksCancelled
  /\ ws' = "failed"
  /\ UNCHANGED <<lk, records, jobs, job_order, prompt_id_index, cat, cancel,
                 poll, stop_event, close, resume>>

\* lines 717-722, 733-738, 753-758: the job a prompt id routes to is marked
\* running if it is not yet.
MarkRunning(rs, tbl, job_id) ==
  IF job_id = "" THEN rs
  ELSE LET r == tbl[job_id]
       IN  IF ~rs[r].running
           THEN [rs EXCEPT ![r] = Replace(@, "running")]
           ELSE rs

\* lines 774-791: execution_interrupted / execution_error
StreamError(rs, tbl, job_id, type) ==
  IF job_id = "" THEN rs
  ELSE LET r == tbl[job_id]
       IN  IF ~IsDone(rs[r])
           THEN [rs EXCEPT ![r] = Replace(@, "errored"),
                           ![r].status_errors = Append(@, type)]
           ELSE rs

\* Message types that touch a job; the other types (progress, executing
\* with last_node_id, undecodable text) only update the running guess or are
\* logged, and are one type here.
WSTypes == {"executing", "execution_start", "executed",
            "execution_interrupted", "execution_error", "other"}

\* lines 706-807.  prompt_id NoPrompt is a message whose prompt_id is null.
LoopWSDispatch(rs, tbl, index, type, prompt_id) ==
  LET job_id == IF prompt_id = NoPrompt THEN "" ELSE index[prompt_id]
  IN  IF type \in {"executing", "execution_start", "executed"}
      THEN MarkRunning(rs, tbl, job_id)
      ELSE IF type \in {"execution_interrupted", "execution_error"}
      THEN StreamError(rs, tbl, job_id, type)
      ELSE rs

\* ws.recv() returned a message, line 690.
LoopWSMessage(type, prompt_id) ==
  /\ ws = "recv"
  /\ ~TasksCancelled
  /\ records' = LoopWSDispatch(records, jobs, prompt_id_index, type,
                               prompt_id)
  /\ UNCHANGED <<lk, jobs, job_order, prompt_id_index, cat, cancel, poll, ws,
                 stop_event, close, resume>>

LoopWS ==
  \E type \in WSTypes, prompt_id \in {NoPrompt} \cup PromptIDs :
    LoopWSMessage(type, prompt_id)

--------------------------------------------------------------------------
\* The caller side of a result future, GetStatus, Close

\* The caller cancels the future it was handed (asyncio.wait_for does so on
\* a timeout).
CallerCancelsFuture(job_id) ==
  /\ jobs[job_id] # 0
  /\ ~FutureDone(records[jobs[job_id]].future)
  /\ records' = [records EXCEPT ![jobs[job_id]].future = FutureCancel(@)]
  /\ UNCHANGED <<lk, jobs, job_order, prompt_id_index, cat, cancel, poll, ws,
                 stop_event, close, resume>>

CallerCancels == \E job_id \in JobIDs : CallerCancelsFuture(job_id)

\* _GetJob without the membership test of line 323.
GetJobUnchecked(tbl, job_id) == "ok"

\* _GetJob, lines 318-325
GetJob(tbl, job_id) == IF tbl[job_id] = 0 THEN "JobNotFound" ELSE "ok"

\* GetStatus, lines 307-311: JobNotFound, or the job's status and future.
GetStatus(job_id) == GetJob(jobs, job_id)

\* GetExceptions, lines 313-316
GetExceptions(job_id) ==
  [raised |-> GetJob(jobs, job_id),
   errors |-> IF jobs[job_id] = 0 THEN <<>> ELSE records[jobs[job_id]].errors]

\* Close, lines 166-176: cancel the futures of the jobs in the table.
CloseJobs(rs, tbl) ==
  [r \in Calls |->
    IF \E job_id \in JobIDs : tbl[job_id] = r
    THEN [rs[r] EXCEPT !.future = FutureCancel(@)] ELSE rs[r]]

\* lines 166-176.  _CheckError re-raises out of a background task that is
\* already done; otherwise both tasks are cancelled and awaited.
CloseStart ==
  /\ close = "idle"
  /\ stop_event' = TRUE
  /\ records' = CloseJobs(records, jobs)
  /\ close' = IF poll.pc = "dead" \/ ws \in {"dead", "failed"}
              THEN "raised" ELSE "waiting"
  /\ UNCHANGED <<lk, jobs, job_order, prompt_id_index, cat, cancel, poll, ws,
                 resume>>

\* The cancellation reaches _PollLoop at its await; inside
\* _PollHistoryUpdateJobHistory it leaves through the _JobContext.
PollCancelled ==
  /\ close = "waiting"
  /\ poll.pc # "dead"
  /\ records' = IF poll.pc = "history"
                THEN JobContextExit(records, jobs, poll.job_ids[poll.at],
                                    Exc("CancelledError"))
                ELSE records
  /\ poll' = [SleepingPoll EXCEPT !.pc = "dead"]
  /\ UNCHANGED <<lk, jobs, job_order, prompt_id_index, cat, cancel, ws, stop_event, close, resume>>

\* The cancellation reaches _LoopWS / _MonitoringThread, lines 808-809.
WSCancelled ==
  /\ close = "waiting"
  /\ ws \in {"start", "connect", "recv", "error_sleep", "delay"}
  /\ ws' = "dead"
  /\ UNCHANGED <<lk, records, jobs, job_order, prompt_id_index, cat, cancel,
                 poll, stop_event, close, resume>>

\* lines 177-184: both tasks are over.
CloseReturns ==
  /\ close = "waiting"
  /\ poll.pc = "dead"
  /\ ws \in {"dead", "done"}
  /\ close' = "returned"
  /\ UNCHANGED <<lk, records, jobs, job_order, prompt_id_index, cat, cancel,
                 poll, ws, stop_event, resume>>

\* catapult.Resume(job_id=..., status=..., poll=True, errors=...) as
\* test_Resume calls it: neither ComfyCatapult nor ComfyCatapultBase has an
\* attribute Resume, so the attribute lookup raises and nothing is touched.
Resume(job_id) ==
  /\ resume.pc = "idle"
  /\ resume' = [pc |-> "raised", job_id |-> job_id,
                raised |-> Exc("AttributeError")]
  /\ UNCHANGED <<lk, records, jobs, job_order, prompt_id_index, cat, cancel,
                 poll, ws, stop_event, close>>

ResumeJob == \E job_id \in JobIDs : Resume(job_id)

--------------------------------------------------------------------------
\* The lock and await operations of every coroutine, in source order.  An
\* operation is "acquire" / "release" of self._lock, an access to a guarded
\* field, or an await that suspends the task.

Fields == {"jobs", "status", "remote_job_status", "prompt_id_index",
           "guess", "tasks", "debug_path"}

EngineCalls == {"PostPrompt", "GetQueue", "GetHistoryRaw", "GetSystemStats",
                "GetPromptRaw", "PostInterrupt", "PostQueue", "recv"}

\* "parse" is TryParseAsModel, which validates in a thread.
OtherAwaits == {"mkdir", "dump", "sleep", "connect", "await_tasks", "parse"}

\* async with self._lock: <ops>
Locked(ops) == <<"acquire">> \o ops \o <<"release">>

\* _JobContext.__aexit__ with an exception, lines 916-943; the job is in
\* the table.
JobContextExitOps == Locked(<<"jobs", "status", "remote_job_status">>)

\* lines 918-920: the job is not in the table.
JobContextExitMissing == Locked(<<"jobs">>)

\* lines 944-960: a job with a debug path also writes the context dump.
JobContextExitDump == JobContextExitOps \o <<"mkdir", "dump">>

\* _JobContext.WatchVar, lines 896-910
WatchVarOps == Locked(<<"jobs">>)

\* _Record, lines 671-678
RecordOps == Locked(<<"guess">>)

\* _CheckError, lines 865-870
CheckErrorOps == Locked(<<"tasks">>)

\* _CatapultInternal, lines 235-305: rejected by the validation; accepted;
\* PostPrompt raises; the ticket has errors.
CatapultOps ==
  LET head == Locked(<<"jobs">>) \o <<"mkdir">> \o Locked(<<"jobs">>)
                \o <<"PostPrompt">>
  IN  { Locked(<<"jobs">>),
        head \o Locked(<<"status", "prompt_id_index">>)
             \o Locked(<<"status">>) \o Locked(<<"status">>),
        head \o JobContextExitDump,
        head \o Locked(<<"status", "prompt_id_index">>)
             \o JobContextExitOps }

\* CancelJob with one lock section around lines 329-352.
CancelJobOpsHoldsLock ==
  {Locked(<<"jobs", "status", "remote_job_status", "PostInterrupt",
            "PostQueue", "remote_job_status", "status">>)}

\* CancelJob, lines 327-352: with the engine calls; without; unknown job id;
\* PostInterrupt raises.
CancelJobOps ==
  LET head == Locked(<<"jobs", "status", "remote_job_status">>)
  IN  { head \o <<"PostInterrupt", "PostQueue">>
             \o Locked(<<"remote_job_status">>) \o Locked(<<"status">>),
        head \o Locked(<<"status">>),
        Locked(<<"jobs">>) \o JobContextExitMissing,
        head \o <<"PostInterrupt">> \o JobContextExitOps }

\* GetStatus and GetExceptions, lines 307-316: known and unknown job id.
GetStatusOps == {Locked(<<"jobs", "status">>), Locked(<<"jobs">>)}

\* Close, lines 164-184; _CheckError may raise.
CloseOps ==
  LET head == Locked(<<"jobs", "status">>) \o CheckErrorOps
  IN  {head \o Locked(<<"tasks">>) \o <<"await_tasks">>, head}

\* _ReceivedJobHistory, lines 360-463, up to the last lock section.
ReceivedJobHistoryOps ==
  Locked(<<"jobs">>) \o Locked(<<"status">>) \o Locked(<<"status">>)
    \o Locked(<<"status">>)

\* One iteration of _PollLoop, lines 468-513 and 814-822: a full iteration
\* that stores a result; the job has vanished; the job has no prompt id; a
\* done future raises and GetSystemStats fails; _CheckError raises.
PollOps ==
  LET head == Locked(<<"jobs">>) \o CheckErrorOps
                \o Locked(<<"jobs", "status">>)
      probes == <<"GetSystemStats">> \o Locked(<<"jobs", "status">>)
                  \o <<"GetQueue">> \o Locked(<<"prompt_id_index">>)
                  \o Locked(<<"jobs", "status">>) \o <<"GetPromptRaw">>
                  \o Locked(<<"jobs", "remote_job_status">>)
                  \o Locked(<<"jobs", "status">>)
      fetched == <<"GetHistoryRaw">> \o WatchVarOps \o <<"parse">>
  IN  { head \o probes \o fetched \o ReceivedJobHistoryOps \o <<"sleep">>,
        head \o probes \o fetched \o Locked(<<"jobs">>)
             \o Locked(<<"status">>) \o JobContextExitOps \o <<"sleep">>,
        head \o probes \o JobContextExitOps \o <<"sleep">>,
        head \o Locked(<<"jobs", "status">>) \o JobContextExitOps
             \o <<"GetSystemStats", "sleep">>,
        Locked(<<"jobs">>) \o CheckErrorOps \o <<"sleep">> }

\* _LoopWS with _Record inside the lock section of lines 716-728.
LoopWSRecordInside ==
  <<"recv">> \o Locked(<<"debug_path">>) \o <<"parse">>
    \o Locked(<<"prompt_id_index", "jobs", "status", "guess">> \o RecordOps)

\* One message of _LoopWS that routes to a job, lines 690-699 and 712-798.
LoopWSRouted ==
  <<"recv">> \o Locked(<<"debug_path">>) \o <<"parse">>
    \o Locked(<<"prompt_id_index", "jobs", "status", "guess">>) \o RecordOps

\* _MonitoringThread and _LoopWS, lines 687-863: the connection set-up; a
\* message that routes to a job; a message that only updates the running
\* guess; a message that does not decode; a binary frame.
MonitoringOps ==
  { Locked(<<"debug_path">>) \o <<"connect">>,
    LoopWSRouted,
    <<"recv">> \o Locked(<<"debug_path">>) \o <<"parse">>
      \o Locked(<<"guess">>) \o RecordOps,
    <<"recv">> \o Locked(<<"debug_path">>) \o <<"parse", "sleep">>,
    <<"recv">> }

TaskOps(t) ==
  IF t = "caller"
  THEN CatapultOps \cup CancelJobOps \cup GetStatusOps \cup CloseOps
  ELSE IF t = "poll" THEN PollOps ELSE MonitoringOps

\* Task t runs from operation i until it suspends: in an await, or at an
\* acquire of a lock that is not free (asyncio.Lock is not reentrant, so a
\* lock held by t itself does not open either).
RECURSIVE RunFrom(_, _, _, _, _)
RunFrom(t, ops, i, lock, unguarded) ==
  IF i > Len(ops)
  THEN [pc |-> 0, lock |-> lock, unguarded |-> unguarded]
  ELSE IF ops[i] = "acquire"
  THEN IF lock # ""
       THEN [pc |-> i, lock |-> lock, unguarded |-> unguarded]
       ELSE RunFrom(t, ops, i + 1, t, unguarded)
  ELSE IF ops[i] = "release"
  THEN RunFrom(t, ops, i + 1, "", unguarded)
  ELSE IF ops[i] \in Fields
  THEN RunFrom(t, ops, i + 1, lock, unguarded \/ lock # t)
  ELSE [pc |-> i + 1, lock |-> lock, unguarded |-> unguarded]

\* The operation task t is suspended before.
NextOp(t) ==
  IF lk.pc[t] \in DOMAIN lk.prog[t] THEN lk.prog[t][lk.pc[t]] ELSE "none"

\* The await task t is suspended in.
AwaitedOp(t) ==
  IF lk.pc[t] - 1 \in DOMAIN lk.prog[t]
     /\ lk.prog[t][lk.pc[t] - 1] \notin Fields \cup {"acquire", "release"}
  THEN lk.prog[t][lk.pc[t] - 1] ELSE "none"

LockRun(t, ops, i) ==
  LET res == RunFrom(t, ops, i, lk.lock, lk.unguarded)
  IN  /\ lk' = [lk EXCEPT !.lock = res.lock, !.unguarded = res.unguarded,
                          !.pc[t] = res.pc,
                          !.prog[t] = IF res.pc = 0 THEN <<>> ELSE ops]
      /\ UNCHANGED <<records, jobs, job_order, prompt_id_index, cat, cancel,
                     poll, ws, stop_event, close, resume>>

\* Task t starts a coroutine (a call of the facade, a poll iteration, the
\* handling of one message) and runs to its first suspension.
LockStart(t) ==
  /\ lk.pc[t] = 0
  /\ \E ops \in TaskOps(t) : LockRun(t, ops, 1)

\* The await of task t is over, or the lock it waits for is free: it runs to
\* its next suspension.
LockResume(t) ==
  /\ lk.pc[t] > 0
  /\ ~(NextOp(t) = "acquire" /\ lk.lock # "")
  /\ LockRun(t, lk.prog[t], lk.pc[t])

NextLock == \E t \in LockTasks : LockStart(t) \/ LockResume(t)

SpecLock == Init /\ [][NextLock]_vars

--------------------------------------------------------------------------
\* The websocket sessions of _MonitoringThread, lines 824-863, one await per
\* step.  ws is "connect" in the connect of line 845, "recv" in ws.recv(),
\* "error_sleep" in the sleep of line 812, "delay" in the sleep of line 863
\* and "done" when the while loop of line 854 has ended.

WSFrame ==
  UNCHANGED <<lk, records, jobs, job_order, prompt_id_index, cat, cancel,
              poll, stop_event, close, resume>>

\* lines 854-856 without the test of the stop flag.
MonitoringThreadLoopIgnoresStop ==
  /\ ws = "delay"
  /\ ~TasksCancelled
  /\ ws' = "connect"
  /\ WSFrame

\* line 863 is over: the loop head of line 854 tests the stop flag and the
\* next _MonitoringThreadLoopOnce starts to connect.
MonitoringThreadLoop ==
  /\ ws = "delay"
  /\ ~TasksCancelled
  /\ ws' = IF stop_event THEN "done" ELSE "connect"
  /\ WSFrame

\* lines 826-835 and the first test of line 854.
MonitoringThreadSetup ==
  /\ ws = "start"
  /\ ~TasksCancelled
  /\ ws' = IF stop_event THEN "done" ELSE "connect"
  /\ WSFrame

\* line 845: the connection is open, _LoopWS awaits ws.recv().
ConnectDone ==
  /\ ws = "connect"
  /\ ~TasksCancelled
  /\ ws' = "recv"
  /\ WSFrame

\* line 845 raises: lines 852-853 log it, line 863 sleeps.
ConnectRaises ==
  /\ ws = "connect"
  /\ ~TasksCancelled
  /\ ws' = "delay"
  /\ WSFrame

\* _LoopWS without the handler of lines 810-812: the exception leaves
\* _LoopWS and the session is over.
LoopWSRaisesEndsSession ==
  /\ ws = "recv"
  /\ ~TasksCancelled
  /\ ws' = "delay"
  /\ WSFrame

\* ws.recv() raises (the connection broke), or the text does not decode, or
\* the handling of the message raises before it has touched a job: lines
\* 810-812 log it and sleep.
LoopWSRaises ==
  /\ ws = "recv"
  /\ ~TasksCancelled
  /\ ws' = "error_sleep"
  /\ WSFrame

\* The sleep of line 812 is over: back to ws.recv().
LoopWSSleepDone ==
  /\ ws = "error_sleep"
  /\ ~TasksCancelled
  /\ ws' = "recv"
  /\ WSFrame

\* wait_for's timeout (ws_connect_interval, lines 846-849) cancels _LoopWS
\* wherever it is suspended; the TimeoutError is dropped, line 863 sleeps.
WaitForTimeout ==
  /\ ws \in {"recv", "error_sleep"}
  /\ ~TasksCancelled
  /\ ws' = "delay"
  /\ WSFrame

\* The consumer with its sessions, a submission whose prompt the messages
\* route to, a caller that cancels its future, the start of a poll iteration
\* and Close.
NextWS ==
  \/ MonitoringThreadSetup
  \/ MonitoringThreadRaises
  \/ ConnectDone
  \/ ConnectRaises
  \/ LoopWS
  \/ LoopWSRaises
  \/ LoopWSSleepDone
  \/ WaitForTimeout
  \/ MonitoringThreadLoop
  \/ CatapultStart(1)
  \/ CatapultMkdirDone(1)
  \/ CatapultPostPrompt(1)
  \/ CallerCancels
  \/ PollStart
  \/ CloseStart
  \/ PollCancelled
  \/ WSCancelled
  \/ CloseReturns

\* Every await of the monitoring task ends: connect has an open timeout, the
\* sleeps and wait_for run on the clock, and a cancelled task is resumed with
\* its CancelledError.
SpecWS ==
  /\ Init
  /\ [][NextWS]_vars
  /\ WF_vars(MonitoringThreadSetup)
  /\ WF_vars(ConnectDone \/ ConnectRaises)
  /\ WF_vars(LoopWSSleepDone)
  /\ WF_vars(WaitForTimeout)
  /\ WF_vars(MonitoringThreadLoop)
  /\ WF_vars(WSCancelled)

--------------------------------------------------------------------------
\* One job followed through every interleaving of its submission, CancelJob,
\* the poll loop, the websocket consumer, the caller and Close.
Next ==
  \/ CatapultStart(1)
  \/ CatapultMkdirDone(1)
  \/ CatapultPostPrompt(1)
  \/ CatapultPostPromptRaises(1)
  \/ CancelJob
  \/ CancelInterruptReturns
  \/ CancelRemoteRaises
  \/ CancelDequeueReturns
  \/ PollStart
  \/ PollSystemStats
  \/ PollProbeRaises
  \/ PollQueue
  \/ PollPromptRaw
  \/ PollHistory
  \/ PollHistoryRaises
  \/ MonitoringThreadStart
  \/ MonitoringThreadRaises
  \/ LoopWS
  \/ CallerCancels
  \/ CloseStart
  \/ PollCancelled
  \/ WSCancelled
  \/ CloseReturns

Spec == Init /\ [][Next]_vars

\* Several Catapult calls overlapping in time, on the same or different ids.
NextCalls ==
  \/ \E c \in Calls : CatapultStart(c)
  \/ \E c \in Calls : CatapultMkdirDone(c)
  \/ \E c \in Calls : CatapultPostPrompt(c)
  \/ \E c \in Calls : CatapultPostPromptRaises(c)

SpecCalls == Init /\ [][NextCalls]_vars

\* The engine loses the prompt of the job: no queue answer lists it and every
\* history answer is empty.  Every probe returns, and nobody cancels.
PollQueueVanished ==
  \E queue_info \in QueueAnswers :
    /\ \A c \in Calls : queue_info[c] = "absent"
    /\ PollQueueAnswer(queue_info)

PollHistoryEmpty == PollHistoryAnswer([kind |-> "empty", entry |-> NoHistory])

NextVanished ==
  \/ CatapultStart(1)
  \/ CatapultMkdirDone(1)
  \/ CatapultPostPrompt(1)
  \/ PollStart
  \/ PollSystemStats
  \/ PollQueueVanished
  \/ PollPromptRaw
  \/ PollHistoryEmpty
  \/ MonitoringThreadStart
  \/ LoopWS

\* _PollLoop is rescheduled after every sleep and the probes return.
SpecVanished ==
  /\ Init
  /\ [][NextVanished]_vars
  /\ WF_vars(MonitoringThreadStart)
  /\ WF_vars(PollStart)
  /\ WF_vars(PollSystemStats)
  /\ WF_vars(PollQueueVanished)
  /\ WF_vars(PollPromptRaw)
  /\ WF_vars(PollHistoryEmpty)

\* A fresh instance is handed a job with Resume while it also takes a
\* submission and polls.
NextResume ==
  \/ ResumeJob
  \/ CatapultStart(1)
  \/ CatapultMkdirDone(1)
  \/ CatapultPostPrompt(1)
  \/ MonitoringThreadStart
  \/ PollStart
  \/ PollSystemStats
  \/ PollQueue
  \/ PollPromptRaw
  \/ PollHistory

SpecResume == Init /\ [][NextResume]_vars

--------------------------------------------------------------------------
\* Properties

Live == {c \in Calls : records[c].live}

\* C1: for every job at most one of status.success, status.errored and
\* status.cancelled is set, in every reachable state.
AtMostOneTerminal ==
  \A c \in Live :
    /\ ~(records[c].success /\ records[c].errored)
    /\ ~(records[c].success /\ records[c].cancelled)
    /\ ~(records[c].errored /\ records[c].cancelled)

\* A ticket with an error, node errors or no prompt id.
Rejected(ticket) ==
  ticket.error \/ ticket.node_errors \/ ticket.prompt_id = NoPrompt

\* C2 (as claimed): whenever the ticket PostPrompt returned has an error, node errors or no
\* prompt id, the Catapult call has raised WorkflowSubmissionError carrying
\* its workflow and that ticket, and the job's future is rejected with that
\* same exception.
SubmissionFailureSurfacedTwice ==
  \A c \in Live :
    (records[c].ticket.present /\ Rejected(records[c].ticket)) =>
      LET exc == WorkflowSubmissionError(c, records[c].ticket)
      IN  /\ cat[c].pc = "raised"
          /\ cat[c].raised = exc
          /\ records[c].future.state = "exception"
          /\ records[c].future.exc = exc

\* C2 (amended): when PostPrompt returns a rejected ticket, the Catapult call
\* raises WorkflowSubmissionError carrying its workflow and that ticket; the
\* future of the job registered under the job id is rejected with that same
\* exception if it was still pending, and keeps its outcome if it was done.
SubmissionFailureSurfaced ==
  [][\A c \in Calls : \A ticket \in Tickets(c) :
       (CatapultTicket(c, ticket) /\ Rejected(ticket)) =>
         LET exc == WorkflowSubmissionError(c, ticket)
             r == jobs[cat[c].job_id]
         IN  /\ cat'[c].pc = "raised"
             /\ cat'[c].raised = exc
             /\ records'[r].future =
                  IF FutureDone(records[r].future) THEN records[r].future
                  ELSE [state |-> "exception", result |-> NoHistory,
                        exc |-> exc]
    ]_vars

SubmissionFailureSurfacedWitness ==
  \E c \in Live :
    /\ cat[c].pc = "raised"
    /\ cat[c].raised = WorkflowSubmissionError(c, records[c].ticket)
    /\ records[c].future.state = "exception"
    /\ records[c].future.exc = cat[c].raised
    /\ records[c].errored

\* C3: a job whose ticket has an error or node errors has no entry in the
\* prompt-id index, even when the ticket carries a prompt id.
SubmissionFailureDoesNotIndex ==
  \A c \in Live :
    (records[c].ticket.error \/ records[c].ticket.node_errors) =>
      \A p \in PromptIDs : prompt_id_index[p] # records[c].job_id

\* The outcome fields of a job, its two error lists and its future.
Outcome(job) ==
  <<job.success, job.errored, job.cancelled, job.status_errors, job.errors,
    job.future>>

\* A step of a CancelJob call on record r that was terminal when called.
CancelStepOnTerminal(r) ==
  \/ \E job_id \in JobIDs :
       jobs[job_id] = r /\ IsDone(records[r]) /\ CancelJobStart(job_id)
  \/ /\ cancel.pc # "idle"
     /\ cancel.job = r
     /\ cancel.was_done
     /\ CancelInterruptReturns \/ CancelRemoteRaises \/ CancelDequeueReturns

\* C4: CancelJob on a job that is already terminal changes neither its
\* outcome fields, nor its errors, nor the state of its future.
CancelTerminalIsLocalNoOp ==
  [][\A r \in Calls :
       CancelStepOnTerminal(r) => Outcome(records'[r]) = Outcome(records[r])
    ]_vars

\* C5: CancelJob on a job that is already terminal awaits no PostInterrupt
\* (and so no PostQueue) call.
CancelTerminalCallsNoEngine ==
  [][\A job_id \in JobIDs :
       (/\ jobs[job_id] # 0
        /\ IsDone(records[jobs[job_id]])
        /\ CancelJobStart(job_id)) => cancel'.pc # "interrupt"
    ]_vars

\* The step in which a CancelJob call on record r ends (returns or raises).
CancelEndsOn(r) ==
  \/ \E job_id \in JobIDs :
       jobs[job_id] = r /\ CancelJobStart(job_id) /\ cancel'.pc = "idle"
  \/ /\ cancel.pc # "idle"
     /\ cancel.job = r
     /\ CancelRemoteRaises \/ CancelDequeueReturns

\* C6: a CancelJob call on a job that is not terminal ends with the job
\* cancelled, its future cancelled and errored still unset, whether or not
\* the remote calls raised.
CancelAlwaysCancels ==
  [][\A r \in Calls :
       (CancelEndsOn(r) /\ ~IsDone(records[r])) =>
         /\ records'[r].cancelled
         /\ records'[r].future.state = "cancelled"
         /\ ~records'[r].errored
    ]_vars

\* C7: no two Catapult calls create a job record for the same job id (the
\* later one fails with the duplicate-id error), so a record in the table is
\* never replaced.
JobIDsUnique ==
  \A c, d \in Live : c # d => records[c].job_id # records[d].job_id

\* C8: GetStatus and GetExceptions raise JobNotFound exactly for the job ids
\* no Catapult call has inserted; a record once created stays in the table.
JobRetention ==
  \A job_id \in JobIDs :
    LET inserted == \E c \in Live : records[c].job_id = job_id
    IN  /\ (GetStatus(job_id) = "JobNotFound") <=> ~inserted
        /\ (GetExceptions(job_id).raised = "JobNotFound") <=> ~inserted

JobRetentionWitness ==
  /\ close = "returned"
  /\ \E c \in Live : IsDone(records[c]) /\ GetStatus(records[c].job_id) = "ok"

\* C9: a future that is done (result, exception or cancelled) is not changed
\* by any later step.
SingleResolution ==
  [][\A c \in Calls :
       FutureDone(records[c].future) =>
         records'[c].future = records[c].future
    ]_vars

SingleResolutionWitness ==
  \E c \in Live : /\ records[c].future.state = "cancelled"
                  /\ records[c].errored
                  /\ records[c].job_history.present

\* C10: a terminal status comes with a future that is done in the matching
\* way: success with a result, errored with an exception, cancelled with a
\* cancellation.
StatusAndFutureAgree ==
  \A c \in Live :
    /\ records[c].success => records[c].future.state = "result"
    /\ records[c].errored => records[c].future.state = "exception"
    /\ records[c].cancelled => records[c].future.state = "cancelled"

\* C11: whenever success is set, job_history is present and the future holds
\* exactly that entry as its result; and success is only ever set on a job
\* that was not terminal.
SuccessCarriesSnapshot ==
  [][\A c \in Calls :
       records'[c].success =>
         /\ records'[c].job_history.present
         /\ records'[c].future.state = "result"
         /\ records'[c].future.result = records'[c].job_history
         /\ ~records[c].success => ~IsDone(records[c])
    ]_vars

\* The job whose history the poll task is waiting for.
PolledJob == jobs[poll.job_ids[poll.at]]

\* outputs_to_execute minus the nodes with data, restricted to the important
\* nodes, in the order of outputs_to_execute.
MissingImportant(entry, job) ==
  SelectSeq(entry.to_execute,
            LAMBDA n : /\ n \notin entry.outputs
                       /\ \E i \in DOMAIN job.important : job.important[i] = n)

\* What C12 says of the step that hands a not-incomplete entry to
\* _ReceivedJobHistory.
ImportantOutputsOutcome(entry, job, after) ==
  LET missing == MissingImportant(entry, job)
      exc == NodesNotExecuted(missing, GetTitles(missing))
  IN  IF missing # <<>>
      THEN /\ after.errored /\ ~after.success /\ ~after.cancelled
           /\ after.future = [state |-> "exception", result |-> NoHistory,
                              exc |-> exc]
           /\ after.errors = Append(job.errors, exc)
      ELSE /\ after.success /\ ~after.errored /\ ~after.cancelled
           /\ after.future = [state |-> "result", result |-> entry,
                              exc |-> NoExc]
           /\ after.errors = job.errors

\* C12 (as claimed): a history entry not reported as incomplete ends the job
\* Errored with NodesNotExecuted naming the important nodes that were to
\* execute and have no data, in order and with their titles, and ends it
\* Success when there is no such node.
ImportantOutputsEnforcedAlways ==
  [][\A history \in HistoryAnswers :
       (/\ PollHistoryAnswer(history)
        /\ history.kind = "entry"
        /\ history.entry.completed # "false") =>
         ImportantOutputsOutcome(history.entry, records[PolledJob],
                                 records'[PolledJob])
    ]_vars

\* C12 (amended): the same, for a job that is not terminal and whose future
\* is pending when the entry arrives; a future that is done keeps its state.
ImportantOutputsEnforced ==
  [][\A history \in HistoryAnswers :
       (/\ PollHistoryAnswer(history)
        /\ history.kind = "entry"
        /\ history.entry.completed # "false") =>
         IF FutureDone(records[PolledJob].future)
         THEN records'[PolledJob].future = records[PolledJob].future
         ELSE ~IsDone(records[PolledJob]) =>
                ImportantOutputsOutcome(history.entry, records[PolledJob],
                                        records'[PolledJob])
    ]_vars

ImportantOutputsEnforcedWitness ==
  \E c \in Live :
    /\ records[c].important = <<"B">>
    /\ records[c].job_history.outputs = {"A"}
    /\ records[c].job_history.to_execute = <<"A", "B">>
    /\ records[c].errored
    /\ records[c].future.state = "exception"
    /\ records[c].future.exc = NodesNotExecuted(<<"B">>, <<"None">>)

\* C13: a job is never Success while a node of its important list has no
\* output data in its history entry, whatever the entry's prompt block says.
ImportantOutputsMandatory ==
  \A c \in Live :
    records[c].success =>
      \A i \in DOMAIN records[c].important :
        records[c].important[i] \in records[c].job_history.outputs

\* C14 (as claimed): an entry whose status reports completed = false ends
\* the job Errored, its future rejected with JobFailed, whatever outputs
\* carry data and whatever the important nodes are; success is not set.
ExplicitFailureAlwaysErrors ==
  [][\A history \in HistoryAnswers :
       (/\ PollHistoryAnswer(history)
        /\ history.kind = "entry"
        /\ history.entry.completed = "false") =>
         /\ records'[PolledJob].errored
         /\ records'[PolledJob].future =
              [state |-> "exception", result |-> NoHistory,
               exc |-> Exc("JobFailed")]
         /\ ~records'[PolledJob].success
    ]_vars

\* C14 (amended): such an entry never sets success; when the job is not
\* terminal and its future is pending, the job ends Errored with JobFailed
\* recorded and its future rejected with it, whatever the outputs and the
\* important nodes are; a job that is terminal keeps its outcome fields and a
\* future that is done keeps its state.
ExplicitFailureTakesPrecedence ==
  [][\A history \in HistoryAnswers :
       (/\ PollHistoryAnswer(history)
        /\ history.kind = "entry"
        /\ history.entry.completed = "false") =>
         /\ ~records'[PolledJob].success
         /\ IsDone(records[PolledJob]) =>
              /\ records'[PolledJob].errored = records[PolledJob].errored
              /\ records'[PolledJob].cancelled = records[PolledJob].cancelled
         /\ FutureDone(records[PolledJob].future) =>
              records'[PolledJob].future = records[PolledJob].future
         /\ (~IsDone(records[PolledJob])
               /\ ~FutureDone(records[PolledJob].future)) =>
              /\ records'[PolledJob].errored
              /\ ~records'[PolledJob].cancelled
              /\ records'[PolledJob].future =
                   [state |-> "exception", result |-> NoHistory,
                    exc |-> Exc("JobFailed")]
              /\ records'[PolledJob].errors =
                   Append(records[PolledJob].errors, Exc("JobFailed"))
    ]_vars

ExplicitFailureTakesPrecedenceWitness ==
  \E c \in Live :
    /\ records[c].job_history.completed = "false"
    /\ \A i \in DOMAIN records[c].important :
         records[c].important[i] \in records[c].job_history.outputs
    /\ records[c].errored
    /\ records[c].future.state = "exception"
    /\ records[c].future.exc = Exc("JobFailed")

\* C15: a job acknowledged with a prompt id that no later queue answer lists
\* and for which every history answer is empty eventually has its future
\* rejected with the job-disappeared error and errored set.
VanishedJobResolves ==
  \A c \in Calls :
    records[c].comfy_scheduled ~>
      /\ records[c].errored
      /\ records[c].future.state = "exception"
      /\ records[c].future.exc = Exc("JobDisappeared")

\* C16: Close never raises; when it has returned the stop flag is set, both
\* background tasks are over and the future of every job is done; and every
\* future pending when Close ran is cancelled by it.
CloseTerminatesCleanly ==
  /\ [](/\ close # "raised"
        /\ close = "returned" =>
             /\ stop_event
             /\ poll.pc = "dead"
             /\ ws = "dead"
             /\ \A c \in Live : FutureDone(records[c].future))
  /\ [][CloseStart =>
         \A c \in Live :
           ~FutureDone(records[c].future) =>
             records'[c].future.state = "cancelled"]_vars

\* C17: the list GetExceptions returns has one entry for every error of the
\* job's status.errors, in the same order.
GetExceptionsExposesAll ==
  \A job_id \in JobIDs :
    jobs[job_id] # 0 =>
      LET got == GetExceptions(job_id).errors
          status_errors == records[jobs[job_id]].status_errors
      IN  /\ Len(got) = Len(status_errors)
          /\ \A i \in DOMAIN got : got[i].type = status_errors[i]

\* The milestone fields of a job's status.
Milestones(job) ==
  <<job.pending, job.running, job.comfy_scheduled, job.ticket,
    job.job_history, job.queue_check, job.system_stats_check>>

\* C18: once a job is terminal, no step of the poll loop or of the websocket
\* consumer changes a milestone field of its status.
TerminalRecordsImmutable ==
  [][\A c \in Calls :
       (/\ IsDone(records[c])
        /\ UNCHANGED <<lk, cat, cancel, close, resume>>) =>
         Milestones(records'[c]) = Milestones(records[c])
    ]_vars

\* C19: once Resume(job_id, ...) has been called on a fresh instance, the
\* call has returned and GetStatus(job_id) finds the job.
ResumeAcrossInstances ==
  resume.pc # "idle" =>
    /\ resume.pc = "returned"
    /\ GetStatus(resume.job_id) = "ok"

\* C20: an execution_interrupted or execution_error event for a known job
\* that is not terminal appends an error to the job's status errors and
\* leaves success, errored and cancelled unset.
StreamErrorsDoNotConclude ==
  [][\A type \in {"execution_interrupted", "execution_error"} :
       \A p \in PromptIDs :
         (/\ LoopWSMessage(type, p)
          /\ prompt_id_index[p] # ""
          /\ ~IsDone(records[jobs[prompt_id_index[p]]])) =>
           LET r == jobs[prompt_id_index[p]]
           IN  /\ records'[r].status_errors =
                    Append(records[r].status_errors, type)
               /\ ~IsDone(records'[r])
    ]_vars

\* The outcome fields of a job and the outcome of its future.
Disposition(job) == <<job.success, job.errored, job.cancelled, job.future>>

\* C21: for the job whose history the poll task is about to receive, a
\* websocket event and the history entry leave the same outcome fields and
\* the same future whichever of the two is delivered first; likewise for a
\* websocket event and the queue observation of the poll task.
PollStreamCommute ==
  \A type \in WSTypes : \A p \in PromptIDs :
    /\ poll.pc = "history" =>
         \A history \in HistoryAnswers :
           LET job_id == poll.job_ids[poll.at]
               r == jobs[job_id]
               stream_first ==
                 PollHistoryUpdateJobHistory(
                   LoopWSDispatch(records, jobs, prompt_id_index, type, p),
                   jobs, job_id, history, poll.status[job_id])
               poll_first ==
                 LoopWSDispatch(
                   PollHistoryUpdateJobHistory(records, jobs, job_id, history,
                                               poll.status[job_id]),
                   jobs, prompt_id_index, type, p)
           IN  Disposition(stream_first[r]) = Disposition(poll_first[r])
    /\ poll.pc = "queue" =>
         \A queue_info \in QueueAnswers : \A r \in Live :
           LET status == JobQueueStatus(prompt_id_index, poll.job_ids,
                                        queue_info)
               stream_first ==
                 QueueMarkFrom(
                   LoopWSDispatch(records, jobs, prompt_id_index, type, p),
                   jobs, poll.job_ids, status, 1)
               poll_first ==
                 LoopWSDispatch(
                   QueueMarkFrom(records, jobs, poll.job_ids, status, 1),
                   jobs, prompt_id_index, type, p)
           IN  Disposition(stream_first[r]) = Disposition(poll_first[r])

\* C22: the _PollFutures step of a poll iteration makes the status of every
\* job whose future is done and whose status is not terminal match the
\* future: a result gives success, an exception errored, a cancellation
\* cancelled and not errored.
FutureReconciliation ==
  [][PollStart =>
       \A c \in Live :
         (/\ jobs[records[c].job_id] = c
          /\ FutureDone(records[c].future)
          /\ ~IsDone(records[c])) =>
           /\ records[c].future.state = "result" => records'[c].success
           /\ records[c].future.state = "exception" => records'[c].errored
           /\ records[c].future.state = "cancelled" =>
                (records'[c].cancelled /\ ~records'[c].errored)
    ]_vars

\* C23: an exception raised for one job in a step of a poll iteration ends
\* neither the iteration nor the poll loop: the iteration goes on to its
\* next step, and the poll task only ever ends by the cancellation of Close.
PerJobIsolation ==
  [][/\ PollStart => poll'.pc = "stats"
     /\ (poll.pc # "dead" /\ poll'.pc = "dead") => PollCancelled
    ]_vars

\* C24: when GetSystemStats fails the iteration goes on to the queue probe,
\* and when GetPromptRaw (or the queue_remaining check) fails it goes on to
\* the history probe of the jobs that need one.
ProbeFailuresDoNotStarve ==
  [][PollProbeRaises =>
       /\ poll.pc = "stats" => poll'.pc = "queue"
       /\ poll.pc = "promptraw" =>
            LET walk == HistoryWalk(
                          UpdateRemoteJobStatusFrom(records, jobs,
                                                    poll.job_ids,
                                                    poll.status, 1),
                          jobs, poll.job_ids, poll.status, 1)
            IN  poll'.pc = IF walk.at > Len(poll.job_ids) THEN "sleep"
                           ELSE "history"
    ]_vars

\* C25: once the monitoring task is over with an unhandled error, the health
\* check of the poll loop raises at most once, and once it has raised no job
\* is left non-terminal with a pending future.
HealthCheckFailsLoudlyOnce ==
  /\ poll.check_errors <= 1
  /\ poll.check_errors >= 1 =>
       \A c \in Live :
         jobs[records[c].job_id] = c =>
           (IsDone(records[c]) \/ FutureDone(records[c].future))

\* C26: a job that is in the table, its future pending, while its PostPrompt
\* call has not returned is not made terminal, and its future is not
\* rejected, by a step of the poll loop.
NoFalseFailureDuringSubmission ==
  [][\A c \in Calls :
       (/\ cat[c].pc = "post"
        /\ jobs[cat[c].job_id] = c
        /\ ~FutureDone(records[c].future)
        /\ PollStart \/ PollSystemStats \/ PollQueue \/ PollPromptRaw
             \/ PollHistory \/ PollHistoryRaises) =>
         /\ IsDone(records'[c]) = IsDone(records[c])
         /\ records'[c].future.state = "exception" =>
              records[c].future.state = "exception"
    ]_vars

\* C27: a history probe marks a job with the job-disappeared error only if
\* the 'not_in_queue' status it relies on comes from a look-up of the job's
\* prompt id in the engine's queue answer; a job whose prompt id was obtained
\* after the queue snapshot was computed is not marked.
NoFalseVanish ==
  [][\A c \in Calls :
       (/\ PollHistory
        /\ Len(records'[c].status_errors) > Len(records[c].status_errors)
        /\ records'[c].status_errors[Len(records'[c].status_errors)]
             = "JobDisappeared") =>
         records[c].job_id \in poll.looked_up
    ]_vars

\* C28: a job has its pending or running milestone, or its success outcome,
\* only if it has comfy_scheduled; and comfy_scheduled is set only on a job
\* that is not terminal and whose recorded ticket has a prompt id and no
\* submission errors.
LifecycleOrder ==
  /\ [](\A c \in Live :
          (records[c].pending \/ records[c].running \/ records[c].success)
            => records[c].comfy_scheduled)
  /\ [][\A c \in Calls :
          (records'[c].comfy_scheduled /\ ~records[c].comfy_scheduled) =>
            /\ ~IsDone(records[c])
            /\ records'[c].ticket.present
            /\ ~HasErrors(records'[c].ticket)
       ]_vars

Timestamps == {"scheduled", "comfy_scheduled", "pending", "running",
               "success", "errored", "cancelled"}

\* C29: a status timestamp that has a value keeps it: no timestamp is
\* assigned while it already has a value, and no step takes a value away;
\* the poll loop and the websocket consumer seeing the job pending or
\* running again, or after its success, leave the timestamp alone.
WriteOnceMilestones ==
  /\ [](\A c \in Calls : records[c].rewritten = {})
  /\ [][\A c \in Calls : \A field \in Timestamps :
          records[c][field] => records'[c][field]]_vars

\* The queue probe has just reported as running a job that has its running
\* and success timestamps.
WriteOnceMilestonesWitness ==
  /\ poll.pc = "promptraw"
  /\ \E c \in Live :
       /\ jobs[records[c].job_id] = c
       /\ poll.status[records[c].job_id] = "running"
       /\ records[c].running
       /\ records[c].success

\* C30: when the history probe of a job that is already terminal raises,
\* the error is appended to the job's errors (job.errors or status.errors)
\* and the outcome timestamps stay as they are; and no step removes an entry
\* from either list.
ErrorsAfterTerminalAreLogged ==
  [][\A c \in Live :
       /\ SubSeq(records'[c].errors, 1, Len(records[c].errors))
            = records[c].errors
       /\ SubSeq(records'[c].status_errors, 1,
                 Len(records[c].status_errors)) = records[c].status_errors
       /\ (/\ PollHistoryRaises
           /\ jobs[poll.job_ids[poll.at]] = c
           /\ IsDone(records[c])) =>
            /\ \/ Len(records'[c].errors) > Len(records[c].errors)
               \/ Len(records'[c].status_errors)
                    > Len(records[c].status_errors)
            /\ records'[c].success = records[c].success
            /\ records'[c].errored = records[c].errored
            /\ records'[c].cancelled = records[c].cancelled
    ]_vars

\* C31: a websocket message whose prompt id is null or not in the prompt-id
\* index changes no job record, and a queue answer marks the jobs as the
\* answer without its entries for prompt ids that are not in the index
\* does; neither a received message ends the receive loop nor a queue answer
\* keeps the iteration from going on to GetPromptRaw.
PromptRouting ==
  /\ [](ws = "recv" =>
          \A type \in WSTypes, p \in {NoPrompt} \cup PromptIDs :
            (p = NoPrompt \/ prompt_id_index[p] = "") =>
              LoopWSDispatch(records, jobs, prompt_id_index, type, p)
                = records)
  /\ [](poll.pc = "queue" =>
          \A queue_info \in QueueAnswers :
            LET indexed == [p \in PromptIDs |->
                             IF prompt_id_index[p] = "" THEN "absent"
                             ELSE queue_info[p]]
            IN  JobQueueStatus(prompt_id_index, poll.job_ids, queue_info)
                  = JobQueueStatus(prompt_id_index, poll.job_ids, indexed))
  /\ [][(ws = "recv" /\ ws' # "recv") => ~LoopWS]_vars
  /\ [][(poll.pc = "queue" /\ poll'.pc # "promptraw") => ~PollQueue]_vars

\* A queue answer has just been applied to a job of the table and the
\* consumer is receiving, while prompt ids that route to no job exist.
PromptRoutingWitness ==
  /\ poll.pc = "promptraw"
  /\ ws = "recv"
  /\ prompt_id_index[ForeignPrompt] = ""
  /\ \E c \in Live : /\ jobs[records[c].job_id] = c
                      /\ records[c].queue_check
                      /\ poll.status[records[c].job_id] = "not_in_queue"

\* C32: when the poll iteration has updated the remote status of its jobs,
\* a job is PENDING_OR_RUNNING if the iteration's queue answer listed its
\* prompt id as pending or running, and NONE otherwise.
RemoteStatusTracksQueue ==
  [][PollPromptRaw =>
       \A i \in DOMAIN poll.job_ids :
         LET job_id == poll.job_ids[i]
         IN  records'[jobs[job_id]].remote_job_status =
               IF poll.status[job_id] \in {"pending", "running"}
               THEN "PENDING_OR_RUNNING" ELSE "NONE"
    ]_vars

\* C33: every access to the job table, a job's status, its remote status,
\* the prompt-id index and the running guess is made by a task that holds the
\* lock, and no task holds the lock while it is suspended in an engine call
\* or in the websocket receive.
LockDiscipline ==
  /\ ~lk.unguarded
  /\ \A t \in LockTasks : AwaitedOp(t) \in EngineCalls => lk.lock # t

\* CancelJob, a history probe and the consumer are suspended in an engine
\* call, each after a lock section that read the guarded fields.
LockDisciplineWitness ==
  /\ AwaitedOp("caller") = "PostInterrupt"
  /\ AwaitedOp("poll") = "GetHistoryRaw"
  /\ AwaitedOp("ws") = "recv"

\* A task that has requested the lock and waits for it.
Blocked(t) ==
  NextOp(t) = "acquire" /\ AwaitedOp(t) = "none" /\ lk.lock # ""

\* C39: no task requests the lock while it holds it, and no task ever has to
\* wait for the lock: every request finds it free, so the tasks are never all
\* waiting for it.
LockDeadlockFree ==
  /\ \A t \in LockTasks : ~(NextOp(t) = "acquire" /\ lk.lock = t)
  /\ \A t \in LockTasks : ~Blocked(t)

\* The caller has gone through the error path of _JobContext (the lock
\* section of __aexit__ after the body's own sections) and writes the context
\* dump, the poll iteration has done so too for a future that raised, and
\* the consumer is about to handle a message that routes to a job and calls
\* _Record.
LockDeadlockFreeWitness ==
  /\ AwaitedOp("caller") = "dump"
  /\ AwaitedOp("poll") = "GetSystemStats"
  /\ NextOp("poll") = "sleep"
  /\ AwaitedOp("ws") = "recv"
  /\ lk.prog["ws"] = LoopWSRouted

\* C34: an exception raised while a websocket message is received or handled
\* is caught inside _LoopWS (the consumer sleeps and then receives again,
\* unless the session is recycled or the task cancelled meanwhile) and
\* changes no job's outcome; once the task is cancelled its only step is the
\* one that ends it, and that step is taken.
ConsumerResilience ==
  /\ [][LoopWSRaises =>
          /\ ws' = "error_sleep"
          /\ \A c \in Calls :
               /\ records'[c].success = records[c].success
               /\ records'[c].errored = records[c].errored
               /\ records'[c].cancelled = records[c].cancelled
               /\ records'[c].future = records[c].future]_vars
  /\ [][(ws = "error_sleep" /\ ws' # ws) =>
          ws' \in {"recv", "delay", "dead"}]_vars
  /\ (ws = "error_sleep") ~> (ws \in {"recv", "delay", "dead"})
  /\ [][(TasksCancelled /\ ws' # ws) => ws' = "dead"]_vars
  /\ TasksCancelled ~> (ws \in {"dead", "failed", "done"})

\* The consumer sleeps after an exception while a job is running.
ConsumerResilienceWitness ==
  /\ ws = "error_sleep"
  /\ \E c \in Live : records[c].running /\ ~IsDone(records[c])

\* C35: while the stop flag is not set, the end of a websocket session (the
\* monitoring task is in the sleep that follows it) is followed by a new
\* connection attempt; a session in which the consumer receives is ended by
\* the timeout whether or not messages keep arriving; and once the stop flag
\* is set no connection attempt starts.
Reconnection ==
  /\ (ws = "delay" /\ ~stop_event) ~> (ws = "connect" \/ stop_event)
  /\ (ws \in {"recv", "error_sleep"}) ~> (ws \in {"delay", "dead"})
  /\ [][(stop_event /\ ws' = "connect") => ws = "connect"]_vars

\* The stop flag is set, the tasks are not cancelled (Close raised from
\* _CheckError) and the monitoring task has left its loop after a session.
ReconnectionWitness ==
  /\ stop_event
  /\ close = "raised"
  /\ ws = "done"

\* C36: the step in which a Catapult call is rejected by its validation
\* (KeyError for a job id in the table, ValueError for a job id that is not
\* its slugified form) changes no job record, nor the job table, nor the
\* prompt-id index; the rejected call never has a job record, so it never
\* gets to PostPrompt.
RejectedLeavesNoTrace ==
  /\ [][\A c \in Calls :
          (cat[c].pc = "idle" /\ cat'[c].pc = "raised") =>
            /\ records' = records
            /\ jobs' = jobs
            /\ job_order' = job_order
            /\ prompt_id_index' = prompt_id_index]_vars
  /\ [](\A c \in Calls :
          (cat[c].pc = "raised"
           /\ cat[c].raised.type \in {"KeyError", "ValueError"}) =>
            /\ ~records[c].live
            /\ \A job_id \in JobIDs : jobs[job_id] # c)

\* A call was rejected for a job id that is in the table, whose job has got
\* its ticket.
RejectedLeavesNoTraceWitness ==
  \E c, d \in Calls :
    /\ cat[c].pc = "raised" /\ cat[c].raised.type = "KeyError"
    /\ records[d].live /\ jobs[cat[c].job_id] = d
    /\ records[d].ticket.present

\* C37: every entry of the prompt-id index names a job id of the job table
\* whose job has a ticket with that prompt id, and an entry is never removed
\* or changed.
PromptIndexConsistent ==
  /\ [](\A p \in PromptIDs :
          prompt_id_index[p] # "" =>
            /\ jobs[prompt_id_index[p]] # 0
            /\ records[jobs[prompt_id_index[p]]].ticket.prompt_id = p)
  /\ [][\A p \in PromptIDs :
          prompt_id_index[p] # "" =>
            prompt_id_index'[p] = prompt_id_index[p]]_vars


\* C38: once a job is terminal the poll loop eventually stops awaiting
\* GetHistoryRaw for it: from some point on no _PollHistory iteration is
\* suspended in the history request of that job.
TerminalJobsStopBeingProbed ==
  \A c \in Calls :
    [](IsDone(records[c]) =>
         <>[](~(/\ poll.pc = "history"
                /\ jobs[poll.job_ids[poll.at]] = c)))

====
